---- MODULE Spec2Model ----
(***************************************************************************)
(* A model of the MOEX ISS proxy (moex_fastapi): the aggregate handler     *)
(* process_and_analyze_data with its Kafka producer, the upstream client   *)
(* MoexISSClient.fetch_raw with its TTL cache, and the chart read path      *)
(* get_candles_chart over fetch_from_clickhouse.                            *)
(***************************************************************************)
EXTENDS Integers, Sequences, FiniteSets, TLC

VARIABLES
    \* ---- process_and_analyze_data (app/main.py) ----
    pc,                 \* position of the handler: "gather", "flush", "done"
    responses,          \* the result list of asyncio.gather, one slot per task
    served,             \* what the task of ticker i itself ended with
    overtaken,          \* some task completed while an earlier one was pending
    all_processed_data, \* the rows built by the transformation loop
    queue,              \* messages handed to producer.produce, in order
    acked,              \* messages of the queue the broker acknowledged
    failed,             \* messages of the queue whose delivery failed
    result,             \* the HTTP response of the handler, or NoResult
    \* ---- MoexISSClient (app/dependencies.py) ----
    now,                \* the cache's timer (time.monotonic), in seconds
    cache,              \* self.cache: the TTLCache's links, oldest first
    calls,              \* the fetch_raw invocation of each caller
    lastStore,          \* per cache key, the last payload stored and when
    \* ---- the chart read path (app/routers/charts.py) ----
    store,              \* the rows of the table td.candles
    chart,              \* the outcome of the last get_candles_chart call
    \* ---- the router handlers (app/routers, app/main.py) ----
    nreq,               \* how many requests the handlers have taken so far
    reply               \* the HTTP response of the last handler that ended

aggVars == <<pc, responses, served, overtaken, all_processed_data, queue, acked,
             failed, result>>

cacheVars == <<now, cache, calls, lastStore>>

readVars == <<store, chart>>

proxyVars == <<nreq, reply>>

vars == <<aggVars, cacheVars, readVars, proxyVars>>

(***************************************************************************)
(* Bounds of the model.                                                     *)
(***************************************************************************)
\* how many of the handler's tickers the model runs with
NumTickers == 3
\* the longest candle series upstream serves for one ticker
MaxRows == 2
\* callers of fetch_raw
NumCallers == 2
\* the clock advances in steps of ClockStep seconds, up to MaxTime
ClockStep == 100
MaxTime == 500
\* distinct payloads upstream may serve for one request
NumVersions == 2
\* rows in td.candles, their period starts and landing times, and the
\* largest limit a chart request is made with
MaxStored == 3
MaxDt == 3
MaxLanded == 2
MaxLimit == 3
\* how many requests the router handlers take, and how many fetch_raw calls
\* callers that overlap make
MaxRequests == 2
\* how many pages more than the cache has room for a caller walks through
ExtraPages == 2

(***************************************************************************)
(* Values.                                                                  *)
(***************************************************************************)
Pending == [kind |-> "pending"]
NoResult == [status |-> 0]
ZeroDivisionError == "ZeroDivisionError"

\* main.py:192, cut to the first NumTickers tickers
AllTickers == <<"SBER", "GAZP", "LKOH", "YNDX", "NVTK">>
Tickers == SubSeq(AllTickers, 1, NumTickers)
TaskIds == 1..NumTickers

\* One upstream candle: open, close, high, low, value, volume, begin, end
\* (the column order main.py:237-244 reads). Prices are specific to the
\* ticker i and the row j; zero marks a candle whose open price is 0.
Candle(i, j, zero) ==
    << IF zero THEN 0 ELSE 100 * i + 10 * j + 1,
       100 * i + 10 * j + 2,
       100 * i + 10 * j + 3,
       IF zero THEN 0 ELSE 100 * i + 10 * j,
       1000, 10, j, j + 1 >>

\* The series upstream may serve for ticker i: 0..MaxRows candles in
\* strictly increasing begin order, the last of which may open at 0.
SeriesOf(i) ==
    { [j \in 1..n |-> Candle(i, j, z /\ j = n)] :
        n \in 0..MaxRows, z \in BOOLEAN }

\* The ISS payload of a candles request: {"candles": {"data": [...]}}.
Payload(series) == [candles |-> [data |-> series]]

(***************************************************************************)
(* MoexISSClient.fetch_raw, from the upstream exchange to its result        *)
(* (app/dependencies.py), and the /candles endpoint over it (app/main.py).  *)
(***************************************************************************)
Min(a, b) == IF a < b THEN a ELSE b

\* What the upstream GET of one request ends with: a 2xx response with a
\* payload, a non-2xx response with a body of textLen characters, or a
\* transport failure (timeout, DNS, connection refused).
UpOk(data) == [kind |-> "ok", data |-> data]
UpHTTP(status, textLen) == [kind |-> "http", status |-> status, textLen |-> textLen]
UpTransport(cause) == [kind |-> "transport", cause |-> cause]

\* dependencies.py:81-85: the error raised for a non-2xx response. Its
\* message holds the status code and, when the body is not empty, the
\* first 200 characters of the body.
HTTPErrorOf(status, textLen) ==
    [type |-> "Exception", message |-> "ISS API error",
     status |-> status, excerptLen |-> Min(textLen, 200), cause |-> "none"]

\* dependencies.py:86-87: the error raised for any other failure.
TransportErrorOf(cause) ==
    [type |-> "Exception", message |-> "Failed to fetch from ISS",
     status |-> 0, excerptLen |-> 0, cause |-> cause]

\* dependencies.py:65-87: the try block of fetch_raw on a cache miss.
FetchOutcome(up) ==
    CASE up.kind = "ok" -> [ok |-> TRUE, data |-> up.data]
      [] up.kind = "http" ->
            [ok |-> FALSE, error |-> HTTPErrorOf(up.status, up.textLen)]
      [] OTHER -> [ok |-> FALSE, error |-> TransportErrorOf(up.cause)]

\* main.py:175: except httpx.HTTPStatusError matches by exception type.
MatchesHTTPStatusError(e) == e.type = "HTTPStatusError"

\* main.py:148-180: the /candles endpoint's response for a fetch_raw result.
CandlesResponse(r) ==
    IF r.ok THEN [status |-> 200, body |-> r.data]
    ELSE IF MatchesHTTPStatusError(r.error)
         THEN [status |-> r.error.status, body |-> "API error"]
         ELSE [status |-> 500, body |-> "An error occurred"]

(***************************************************************************)
(* process_and_analyze_data (app/main.py:184-282).                          *)
(***************************************************************************)
\* What upstream may do with the candles request of ticker i.
UpstreamOutcomes(i) ==
    { UpOk(Payload(s)) : s \in SeriesOf(i) }
        \cup { UpHTTP(404, 0), UpTransport("ConnectError") }

\* The responses the loopback GET /candles/{ticker} of task i may bring.
TaskResponses(i) ==
    { [kind |-> "response", resp |-> CandlesResponse(FetchOutcome(up))] :
        up \in UpstreamOutcomes(i) }

\* The exceptions the loopback GET itself may raise (httpx.AsyncClient()
\* of main.py:209 has httpx's default timeout).
TaskExceptions == { [kind |-> "raised", exc |-> e] : e \in {"ConnectError", "ReadTimeout"} }

\* A variant of StoreResult that files results in completion order.
StoreOnCompletion(slots, i, r) ==
    LET free == { k \in DOMAIN slots : slots[k] = Pending }
        k == CHOOSE k \in free : \A m \in free : k <= m
    IN  [slots EXCEPT ![k] = r]

\* main.py:214-216: asyncio.gather returns the results in the order of the
\* awaitables it was given, whatever order they complete in.
StoreResult(slots, i, r) == [slots EXCEPT ![i] = r]

\* A variant of CollectData that leaves failed responses out.
CollectSkipFailed(resps) ==
    LET good == SelectSeq(resps, LAMBDA r : r.resp.status = 200)
    IN  [ok |-> TRUE, data |-> [k \in 1..Len(good) |-> good[k].resp.body]]

\* main.py:219-224: every response must be a 200; the first that is not
\* raises HTTPException with its status code.
CollectData(resps) ==
    LET bad == { k \in 1..Len(resps) : resps[k].resp.status # 200 }
    IN  IF bad = {}
        THEN [ok |-> TRUE,
              data |-> [k \in 1..Len(resps) |-> resps[k].resp.body]]
        ELSE LET k == CHOOSE k \in bad : \A m \in bad : k <= m
             IN  [ok |-> FALSE,
                  exc |-> [type |-> "HTTPException",
                           status_code |-> resps[k].resp.status]]

\* Python's true division, which raises ZeroDivisionError on a zero
\* divisor; a quotient is kept as the pair of its operands.
Div(a, b) == [raised |-> (b = 0), num |-> a, den |-> b]

\* main.py:237-263: the processed row of one candle.
ProcessCandle(ticker, candle) ==
    LET open_price == candle[1]
        close_price == candle[2]
        high == candle[3]
        low == candle[4]
        begin == candle[7]
        end == candle[8]
        sma == Div(open_price + close_price, 2)
        std == high - low
        avg_price == Div(high + low, 2)
        close_to_open_ratio == Div(close_price - open_price, open_price)
    IN  IF close_to_open_ratio.raised
        THEN [ok |-> FALSE, exc |-> [type |-> ZeroDivisionError]]
        ELSE [ok |-> TRUE,
              row |-> [ticker |-> ticker,
                       openPrice |-> open_price,
                       closePrice |-> close_price,
                       openDt |-> begin,
                       closeDt |-> end,
                       sma |-> sma,
                       std |-> std,
                       avgPrice |-> avg_price,
                       closeToOpenRatio |-> close_to_open_ratio]]

\* main.py:232-265: the rows of every candle of every ticker, in the order
\* of zip(tickers, data); a ticker with no candles adds nothing. The first
\* row that raises ends the loop.
RECURSIVE ProcessFrom(_, _, _, _)
ProcessFrom(tickers, data, t, c) ==
    IF t > Min(Len(tickers), Len(data)) THEN [ok |-> TRUE, rows |-> <<>>]
    ELSE LET candles == data[t].candles.data
         IN  IF c > Len(candles) THEN ProcessFrom(tickers, data, t + 1, 1)
             ELSE LET one == ProcessCandle(tickers[t], candles[c])
                      rest == ProcessFrom(tickers, data, t, c + 1)
                  IN  IF ~one.ok THEN [ok |-> FALSE, exc |-> one.exc]
                      ELSE IF rest.ok
                           THEN [ok |-> TRUE, rows |-> <<one.row>> \o rest.rows]
                           ELSE rest

ProcessAll(tickers, data) == ProcessFrom(tickers, data, 1, 1)

\* main.py:280-282: every exception of the handler becomes a 500.
ErrorResponse(exc) == [status |-> 500, detail |-> exc.type]

\* main.py:278: the success response.
SuccessResponse(rows) == [status |-> 200, processed_data |-> rows]

\* main.py:270: the message produced for one row.
Message(row) == [topic |-> "candles", value |-> row]

InitAgg ==
    /\ pc = "gather"
    /\ responses = [i \in TaskIds |-> Pending]
    /\ served = [i \in TaskIds |-> Pending]
    /\ overtaken = FALSE
    /\ all_processed_data = <<>>
    /\ queue = <<>>
    /\ acked = 0
    /\ failed = 0
    /\ result = NoResult

\* main.py:214: the GET of task i completes with a response.
TaskResponds(i) ==
    /\ pc = "gather"
    /\ served[i] = Pending
    /\ \E r \in TaskResponses(i) :
        /\ served' = [served EXCEPT ![i] = r]
        /\ responses' = StoreResult(responses, i, r)
    /\ overtaken' = (overtaken \/ \E k \in 1..(i - 1) : served[k] = Pending)
    /\ UNCHANGED <<pc, all_processed_data, queue, acked, failed, result>>
    /\ UNCHANGED <<cacheVars, readVars, proxyVars>>

\* main.py:214-216, 280-282: the GET of task i raises; gather, called
\* without return_exceptions, hands the exception to the handler at once.
TaskRaises(i) ==
    /\ pc = "gather"
    /\ served[i] = Pending
    /\ \E e \in TaskExceptions :
        /\ served' = [served EXCEPT ![i] = e]
        /\ result' = ErrorResponse([type |-> e.exc])
    /\ pc' = "done"
    /\ UNCHANGED <<responses, overtaken, all_processed_data, queue, acked, failed>>
    /\ UNCHANGED <<cacheVars, readVars, proxyVars>>

AllResponded == \A i \in TaskIds : served[i].kind = "response"

\* main.py:216-224, 280-282: gather returns and a response is not a 200.
CollectFails ==
    /\ pc = "gather"
    /\ AllResponded
    /\ ~CollectData(responses).ok
    /\ result' = ErrorResponse(CollectData(responses).exc)
    /\ pc' = "done"
    /\ UNCHANGED <<responses, served, overtaken, all_processed_data, queue,
                   acked, failed>>
    /\ UNCHANGED <<cacheVars, readVars, proxyVars>>

\* The rows built before the first row that raises.
RECURSIVE RowsBuilt(_, _, _, _)
RowsBuilt(tickers, data, t, c) ==
    IF t > Min(Len(tickers), Len(data)) THEN <<>>
    ELSE LET candles == data[t].candles.data
         IN  IF c > Len(candles) THEN RowsBuilt(tickers, data, t + 1, 1)
             ELSE LET one == ProcessCandle(tickers[t], candles[c])
                  IN  IF ~one.ok THEN <<>>
                      ELSE <<one.row>> \o RowsBuilt(tickers, data, t, c + 1)

\* A variant of TransformFails that produces each row as soon as it is
\* built, so that the rows before the failing one are already produced.
TransformFailsStreaming ==
    /\ pc = "gather"
    /\ AllResponded
    /\ CollectData(responses).ok
    /\ LET pr == ProcessAll(Tickers, CollectData(responses).data)
           built == RowsBuilt(Tickers, CollectData(responses).data, 1, 1)
       IN  /\ ~pr.ok
           /\ result' = ErrorResponse(pr.exc)
           /\ queue' = [k \in 1..Len(built) |-> Message(built[k])]
    /\ pc' = "done"
    /\ UNCHANGED <<responses, served, overtaken, all_processed_data,
                   acked, failed>>
    /\ UNCHANGED <<cacheVars, readVars, proxyVars>>

\* main.py:216-265, 280-282: every response is a 200 and a row raises.
TransformFails ==
    /\ pc = "gather"
    /\ AllResponded
    /\ CollectData(responses).ok
    /\ LET pr == ProcessAll(Tickers, CollectData(responses).data)
       IN  /\ ~pr.ok
           /\ result' = ErrorResponse(pr.exc)
    /\ pc' = "done"
    /\ UNCHANGED <<responses, served, overtaken, all_processed_data, queue,
                   acked, failed>>
    /\ UNCHANGED <<cacheVars, readVars, proxyVars>>

\* main.py:216-274: every response is a 200, every row is built, and every
\* row is produced; the handler then blocks in producer.flush().
ProduceAll ==
    /\ pc = "gather"
    /\ AllResponded
    /\ CollectData(responses).ok
    /\ LET pr == ProcessAll(Tickers, CollectData(responses).data)
       IN  /\ pr.ok
           /\ all_processed_data' = pr.rows
           /\ queue' = [k \in 1..Len(pr.rows) |-> Message(pr.rows[k])]
    /\ pc' = "flush"
    /\ UNCHANGED <<responses, served, overtaken, acked, failed, result>>
    /\ UNCHANGED <<cacheVars, readVars, proxyVars>>

\* main.py:269-270, 280-282: producer.produce raises (BufferError: the
\* producer's local queue is full) at the message after the n-th.
ProduceFails ==
    /\ pc = "gather"
    /\ AllResponded
    /\ CollectData(responses).ok
    /\ LET pr == ProcessAll(Tickers, CollectData(responses).data)
       IN  /\ pr.ok
           /\ all_processed_data' = pr.rows
           /\ \E n \in 0..(Len(pr.rows) - 1) :
                queue' = [k \in 1..n |-> Message(pr.rows[k])]
    /\ result' = ErrorResponse([type |-> "BufferError"])
    /\ pc' = "done"
    /\ UNCHANGED <<responses, served, overtaken, acked, failed>>
    /\ UNCHANGED <<cacheVars, readVars, proxyVars>>

\* The producer's background thread gets the broker's acknowledgment of the
\* oldest message still in flight (main.py:37-51: acks=all, idempotent).
DeliveryAcked ==
    /\ pc \in {"flush", "done"}
    /\ acked + failed < Len(queue)
    /\ acked' = acked + 1
    /\ UNCHANGED <<pc, responses, served, overtaken, all_processed_data, queue,
                   failed, result>>
    /\ UNCHANGED <<cacheVars, readVars, proxyVars>>

\* The oldest message in flight runs out of retries or of message.timeout.ms
\* (main.py:41, 48): its delivery fails; produce() was given no callback
\* (main.py:270), so nothing in the handler learns of it.
DeliveryFailed ==
    /\ pc \in {"flush", "done"}
    /\ acked + failed < Len(queue)
    /\ failed' = failed + 1
    /\ UNCHANGED <<pc, responses, served, overtaken, all_processed_data, queue,
                   acked, result>>
    /\ UNCHANGED <<cacheVars, readVars, proxyVars>>

\* main.py:274-278: flush() returns once no message is in flight, and the
\* handler, which ignores its return value, answers with the rows.
FlushReturns ==
    /\ pc = "flush"
    /\ acked + failed = Len(queue)
    /\ result' = SuccessResponse(all_processed_data)
    /\ pc' = "done"
    /\ UNCHANGED <<responses, served, overtaken, all_processed_data, queue,
                   acked, failed>>
    /\ UNCHANGED <<cacheVars, readVars, proxyVars>>

NextAgg ==
    \/ \E i \in TaskIds : TaskResponds(i)
    \/ \E i \in TaskIds : TaskRaises(i)
    \/ CollectFails
    \/ TransformFails
    \/ ProduceAll
    \/ ProduceFails
    \/ DeliveryAcked
    \/ DeliveryFailed
    \/ FlushReturns


(***************************************************************************)
(* MoexISSClient: the TTL cache and fetch_raw (app/dependencies.py).        *)
(***************************************************************************)
\* dependencies.py:28: cachetools.TTLCache(maxsize=100, ttl=300)
Maxsize == 100
TTL == 300

Callers == 1..NumCallers
Endpoints == {"engines/stock/markets/shares/boards/TQBR/securities/SBER/candles"}

\* A params dict is the sequence of its items in insertion order. The
\* names are ranked as Python orders the strings.
ParamRank(name) ==
    CASE name = "date" -> 1 [] name = "depth" -> 2 [] name = "from" -> 3
      [] name = "interval" -> 4 [] name = "limit" -> 5 [] name = "q" -> 6
      [] name = "start" -> 7 [] name = "till" -> 8
ParamsChoices ==
    { <<>>,
      << <<"limit", 100>> >>,
      << <<"interval", 24>>, <<"limit", 100>> >>,
      << <<"limit", 100>>, <<"interval", 24>> >> }

\* sorted(params.items()): the items in the order of their names.
RECURSIVE SortedItems(_)
SortedItems(params) ==
    IF params = <<>> THEN <<>>
    ELSE LET k == CHOOSE k \in 1..Len(params) :
                    \A m \in 1..Len(params) :
                        ParamRank(params[k][1]) <= ParamRank(params[m][1])
             rest == [m \in 1..(Len(params) - 1) |->
                        IF m < k THEN params[m] ELSE params[m + 1]]
         IN  <<params[k]>> \o SortedItems(rest)

\* dependencies.py:57: the key is built from the params as they were passed.
CacheKey(endpoint, params) == <<endpoint, SortedItems(params)>>

\* dependencies.py:67-68: limit=100 is added when the params have no limit.
InjectLimit(params) ==
    IF \E k \in 1..Len(params) : params[k][1] = "limit"
    THEN params
    ELSE Append(params, <<"limit", 100>>)

\* dependencies.py:63, 70: the request sent upstream; a query string is the
\* set of its items.
Request(endpoint, params) ==
    [url |-> endpoint,
     query |-> { InjectLimit(params)[k] : k \in 1..Len(InjectLimit(params)) }]

\* The payloads upstream may answer a request with.
UpstreamPayloads(req) == { [req |-> req, version |-> v] : v \in 1..NumVersions }

\* What the upstream GET of a request may end with.
UpstreamResults(req) ==
    { UpOk(d) : d \in UpstreamPayloads(req) }
        \cup { UpHTTP(404, n) : n \in {0, 250} }
        \cup { UpTransport("ConnectTimeout") }

\* TTLCache.__contains__: the key has a link that has not expired.
CacheContains(c, key, t) ==
    \E k \in 1..Len(c) : c[k].key = key /\ t < c[k].expires

\* TTLCache.__getitem__: the value of a link that has not expired;
\* KeyError for a key with no link or an expired one.
CacheGet(c, key, t) ==
    IF \E k \in 1..Len(c) : c[k].key = key /\ t < c[k].expires
    THEN [ok |-> TRUE,
          data |-> c[CHOOSE k \in 1..Len(c) : c[k].key = key].value]
    ELSE [ok |-> FALSE,
          error |-> [type |-> "KeyError", message |-> "KeyError",
                     status |-> 0, excerptLen |-> 0, cause |-> "none"]]

\* TTLCache.expire: the links that have not expired at t.
Expire(c, t) == SelectSeq(c, LAMBDA l : t < l.expires)

\* A variant of CacheSet that never makes room.
CacheSetUnbounded(c, key, value, t) ==
    Append(SelectSeq(Expire(c, t), LAMBDA l : l.key # key),
           [key |-> key, value |-> value, expires |-> t + TTL])

\* A variant of CacheSet whose links expire at once.
CacheSetNoTTL(c, key, value, t) ==
    Append(SelectSeq(Expire(c, t), LAMBDA l : l.key # key),
           [key |-> key, value |-> value, expires |-> t])

\* TTLCache.__setitem__ (dependencies.py:28, 77): expired links are dropped,
\* the oldest link makes room for a new key when the cache is full, and the
\* key's link goes to the end with expires = t + ttl.
CacheSet(c, key, value, t) ==
    LET live == Expire(c, t)
        others == SelectSeq(live, LAMBDA l : l.key # key)
        room == IF Len(others) = Len(live) /\ Len(live) >= Maxsize
                THEN Tail(others) ELSE others
    IN  Append(room, [key |-> key, value |-> value, expires |-> t + TTL])

Idle == [pc |-> "idle"]
NoStore == [time |-> -1]

\* The last payload stored under a key and when, NoStore for a key nothing
\* was stored under.
LastStored(key) == IF key \in DOMAIN lastStore THEN lastStore[key] ELSE NoStore

InitCache ==
    /\ now = 0
    /\ cache = <<>>
    /\ calls = [c \in Callers |-> Idle]
    /\ lastStore = <<>>

InFlight(c) == calls[c].pc \in {"hit", "await"}

\* dependencies.py:53-70: fetch_raw is called; the key is looked up and, on
\* a miss, the GET is sent. With alone, no other invocation is under way.
\* The call keeps its number and the numbers of the calls on the same key
\* that were under way when it began.
BeginCall(c, endpoint, params, use_cache, alone) ==
    /\ calls[c] = Idle
    /\ alone => \A o \in Callers : calls[o] = Idle
    /\ LET key == CacheKey(endpoint, params)
           hit == use_cache /\ CacheContains(cache, key, now)
       IN  calls' = [calls EXCEPT ![c] =
                [pc |-> IF hit THEN "hit" ELSE "await",
                 key |-> key,
                 use_cache |-> use_cache,
                 request |-> Request(endpoint, params),
                 started |-> now,
                 prior |-> LastStored(key),
                 gets |-> IF hit THEN 0 ELSE 1,
                 id |-> nreq + 1,
                 peers |-> { calls[o].id :
                                o \in { o \in Callers : InFlight(o)
                                                        /\ calls[o].key = key } }]]
    /\ UNCHANGED <<now, cache, lastStore>>

\* dependencies.py:61: return self.cache[cache_key], read after the
\* membership test; an exception here is outside the try block.
ReadHit(c) ==
    /\ calls[c].pc = "hit"
    /\ calls' = [calls EXCEPT ![c] =
            [pc |-> "done", key |-> @.key, use_cache |-> @.use_cache,
             request |-> @.request, started |-> @.started, prior |-> @.prior,
             gets |-> @.gets, id |-> @.id, peers |-> @.peers,
             up |-> [kind |-> "none"],
             result |-> CacheGet(cache, @.key, now)]]
    /\ UNCHANGED <<now, cache, lastStore>>

\* dependencies.py:70-87: the GET ends; a 2xx payload is stored under the
\* key when use_cache is set and returned, anything else is raised.
UpstreamResponds(c) ==
    /\ calls[c].pc = "await"
    /\ \E up \in UpstreamResults(calls[c].request) :
        LET r == FetchOutcome(up)
            keep == r.ok /\ calls[c].use_cache
        IN  /\ calls' = [calls EXCEPT ![c] =
                    [pc |-> "done", key |-> @.key, use_cache |-> @.use_cache,
                     request |-> @.request, started |-> @.started,
                     prior |-> @.prior, gets |-> @.gets, id |-> @.id,
                     peers |-> @.peers, up |-> up,
                     result |-> r]]
            /\ cache' = IF keep
                        THEN CacheSet(cache, calls[c].key, r.data, now)
                        ELSE cache
            /\ lastStore' = IF keep
                            THEN [k \in DOMAIN lastStore \cup {calls[c].key} |->
                                    IF k = calls[c].key
                                    THEN [time |-> now, value |-> r.data]
                                    ELSE lastStore[k]]
                            ELSE lastStore
    /\ now' = now

\* The caller has its result or its exception.
Return(c) ==
    /\ calls[c].pc = "done"
    /\ calls' = [calls EXCEPT ![c] = Idle]
    /\ UNCHANGED <<now, cache, lastStore>>

\* Time passes.
Tick ==
    /\ now + ClockStep <= MaxTime
    /\ now' = now + ClockStep
    /\ UNCHANGED <<cache, calls, lastStore>>

\* fetch_raw invocations that do not overlap.
NextCacheSeq ==
    \/ \E e \in Endpoints, p \in ParamsChoices, u \in BOOLEAN :
            BeginCall(1, e, p, u, TRUE) /\ UNCHANGED <<aggVars, readVars, proxyVars>>
    \/ \E c \in Callers : ReadHit(c) /\ UNCHANGED <<aggVars, readVars, proxyVars>>
    \/ \E c \in Callers : UpstreamResponds(c) /\ UNCHANGED <<aggVars, readVars, proxyVars>>
    \/ \E c \in Callers : Return(c) /\ UNCHANGED <<aggVars, readVars, proxyVars>>
    \/ Tick /\ UNCHANGED <<aggVars, readVars, proxyVars>>

\* fetch_raw is called while other invocations may be under way.
Call(c, endpoint, params, use_cache) ==
    /\ nreq < MaxRequests
    /\ BeginCall(c, endpoint, params, use_cache, FALSE)
    /\ nreq' = nreq + 1
    /\ reply' = reply

\* fetch_raw invocations of callers that share the client and may overlap.
NextCache ==
    \/ \E c \in Callers, e \in Endpoints, p \in ParamsChoices, u \in BOOLEAN :
            Call(c, e, p, u) /\ UNCHANGED <<aggVars, readVars>>
    \/ \E c \in Callers : ReadHit(c) /\ UNCHANGED <<aggVars, readVars, proxyVars>>
    \/ \E c \in Callers :
            UpstreamResponds(c) /\ UNCHANGED <<aggVars, readVars, proxyVars>>
    \/ \E c \in Callers : Return(c) /\ UNCHANGED <<aggVars, readVars, proxyVars>>
    \/ Tick /\ UNCHANGED <<aggVars, readVars, proxyVars>>

\* market.py:17-19: the endpoint and params get_market_securities passes
\* for one page of the TQBR share list, start being the page's first row.
ListEndpoint == "engines/stock/markets/shares/boards/TQBR/securities"
PageParams(start) == << <<"limit", 50>>, <<"start", start>> >>

\* The pages a caller walks through: ExtraPages more than the cache holds.
LastPage == Maxsize + ExtraPages - 1
PagesStored == Cardinality(DOMAIN lastStore)

\* fetch_raw is called for the first page not stored yet, or once more for
\* the page stored last.
PageCall(c, start, use_cache) ==
    /\ start \in 0..LastPage
    /\ start \in {PagesStored - 1, PagesStored}
    /\ BeginCall(c, ListEndpoint, PageParams(start), use_cache, TRUE)
    /\ UNCHANGED proxyVars

\* The GET of a page ends; a page does not change while the caller walks
\* through the list.
PageResponds(c) ==
    /\ UpstreamResponds(c)
    /\ calls'[c].up.kind = "ok" => calls'[c].up.data.version = 1
    /\ UNCHANGED proxyVars

\* One caller paging through a list that has more pages than the cache has
\* room for.
NextPaging ==
    \/ \E start \in 0..LastPage, u \in BOOLEAN :
            PageCall(1, start, u) /\ UNCHANGED <<aggVars, readVars>>
    \/ \E c \in Callers : ReadHit(c) /\ UNCHANGED <<aggVars, readVars, proxyVars>>
    \/ \E c \in Callers : PageResponds(c) /\ UNCHANGED <<aggVars, readVars>>
    \/ \E c \in Callers : Return(c) /\ UNCHANGED <<aggVars, readVars, proxyVars>>

(***************************************************************************)
(* The handlers that pass an ISS answer through: app/routers/securities.py, *)
(* market.py and history.py, and get_candles of app/main.py.                *)
(***************************************************************************)
\* Every handler with what guards its fetch_raw call, and the endpoint and
\* params it passes for SBER on the TQBR board with the defaults of its
\* query parameters. get_engine_markets (market.py:76-81) is left out: its
\* path has three segments and is matched by get_security_quotes, which is
\* declared first.
RouteTable ==
    << [name |-> "securities.get_security_info", guard |-> "except",
        endpoint |-> "securities/SBER", params |-> <<>>],
       [name |-> "securities.get_security_indices", guard |-> "except",
        endpoint |-> "securities/SBER/indices", params |-> <<>>],
       [name |-> "securities.get_security_aggregates", guard |-> "except",
        endpoint |-> "securities/SBER/aggregates", params |-> <<>>],
       [name |-> "securities.search_securities", guard |-> "except",
        endpoint |-> "securities",
        params |-> << <<"q", "sber">>, <<"limit", 20>> >>],
       [name |-> "market.get_market_securities", guard |-> "except",
        endpoint |-> "engines/stock/markets/shares/boards/TQBR/securities",
        params |-> << <<"limit", 50>>, <<"start", 0>> >>],
       [name |-> "market.get_security_quotes", guard |-> "except",
        endpoint |-> "engines/stock/markets/shares/boards/TQBR/securities/SBER",
        params |-> <<>>],
       [name |-> "market.get_orderbook", guard |-> "except",
        endpoint |->
            "engines/stock/markets/shares/boards/TQBR/securities/SBER/orderbook",
        params |-> << <<"depth", 10>> >>],
       [name |-> "market.get_trades", guard |-> "except",
        endpoint |->
            "engines/stock/markets/shares/boards/TQBR/securities/SBER/trades",
        params |-> << <<"limit", 20>> >>],
       [name |-> "market.get_engines", guard |-> "none",
        endpoint |-> "engines", params |-> <<>>],
       [name |-> "market.get_market_boards", guard |-> "none",
        endpoint |-> "engines/stock/markets/shares/boards", params |-> <<>>],
       [name |-> "history.get_candles", guard |-> "except",
        endpoint |-> "engines/stock/markets/shares/securities/SBER/candles",
        params |-> << <<"interval", 24>>, <<"from", "2024-01-01">>,
                      <<"till", "2024-01-31">>, <<"limit", 100>> >>],
       [name |-> "history.get_turnovers", guard |-> "none",
        endpoint |-> "turnovers", params |-> <<>>],
       [name |-> "main.get_candles", guard |-> "candles",
        endpoint |->
            "engines/stock/markets/shares/boards/TQBR/securities/SBER/candles",
        params |-> << <<"interval", 24>>, <<"from", "2024-01-01">>,
                      <<"till", "2024-01-31">>, <<"limit", 100>> >>] >>

Routes == 1..Len(RouteTable)
RouteOf(url) == CHOOSE k \in Routes : RouteTable[k].endpoint = url

\* What a handler answers with for the result of its fetch_raw call.
\*   "except":  try / except Exception -> HTTPException(500, detail=str(e))
\*   "candles": main.get_candles, with its two except clauses
\*   "none":    return await client.fetch_raw(...) with no try around it;
\*              the exception leaves the handler and the server answers
\*              with its own bare 500.
HandlerReply(guard, r) ==
    IF r.ok THEN [status |-> 200, handled |-> TRUE, body |-> r.data]
    ELSE CASE guard = "except" ->
                [status |-> 500, handled |-> TRUE, detail |-> r.error.message]
           [] guard = "candles" ->
                [status |-> CandlesResponse(r).status, handled |-> TRUE,
                 detail |-> CandlesResponse(r).body]
           [] OTHER ->
                [status |-> 500, handled |-> FALSE,
                 detail |-> "Internal Server Error"]

NoReply == [route |-> "none"]

InitProxy ==
    /\ nreq = 0
    /\ reply = NoReply

\* A request reaches handler k, which calls fetch_raw.
HandlerCalls(c, k) ==
    /\ nreq < MaxRequests
    /\ BeginCall(c, RouteTable[k].endpoint, RouteTable[k].params, TRUE, TRUE)
    /\ nreq' = nreq + 1
    /\ reply' = reply

\* fetch_raw has returned or raised, and the handler's request is answered.
HandlerReturns(c) ==
    /\ calls[c].pc = "done"
    /\ LET route == RouteTable[RouteOf(calls[c].request.url)]
       IN  reply' = [route |-> route.name,
                     fetched |-> calls[c].result,
                     response |-> HandlerReply(route.guard, calls[c].result)]
    /\ calls' = [calls EXCEPT ![c] = Idle]
    /\ UNCHANGED <<now, cache, lastStore, nreq>>

\* Requests to the pass-through handlers, one at a time.
NextProxy ==
    \/ \E k \in Routes : HandlerCalls(1, k) /\ UNCHANGED <<aggVars, readVars>>
    \/ \E c \in Callers : ReadHit(c) /\ UNCHANGED <<aggVars, readVars, proxyVars>>
    \/ \E c \in Callers :
            UpstreamResponds(c) /\ UNCHANGED <<aggVars, readVars, proxyVars>>
    \/ \E c \in Callers : HandlerReturns(c) /\ UNCHANGED <<aggVars, readVars>>
    \/ Tick /\ UNCHANGED <<aggVars, readVars, proxyVars>>

(***************************************************************************)
(* Properties of process_and_analyze_data, checked under SpecAgg.           *)
(***************************************************************************)
Succeeded(i) == served[i].kind = "response" /\ served[i].resp.status = 200
Failed(i) ==
    \/ served[i].kind = "raised"
    \/ served[i].kind = "response" /\ served[i].resp.status # 200

TickerIndex(t) == CHOOSE i \in TaskIds : Tickers[i] = t

\* The candles task i was served, and the fields of them a row keeps.
ServedSeries(i) == served[i].resp.body.candles.data
CandleKey(c) == <<c[1], c[2], c[7], c[8]>>
RowKey(r) == <<r.openPrice, r.closePrice, r.openDt, r.closeDt>>

\* The rows of a response for one ticker, and the per-ticker failure
\* entries of a response (the handler's responses have no such field).
RowsOf(resp, t) ==
    IF "processed_data" \in DOMAIN resp
    THEN SelectSeq(resp.processed_data, LAMBDA r : r.ticker = t)
    ELSE <<>>
StatusEntries(resp) == IF "statuses" \in DOMAIN resp THEN resp.statuses ELSE {}
ReportsFailure(resp, t, what) ==
    \E e \in StatusEntries(resp) : e.ticker = t /\ e.status = what

\* C1: when at least one ticker's fetch fails and at least one succeeds,
\* the call succeeds, with the rows of every ticker that succeeded and an
\* error entry for every ticker that failed.
C1_PartialFailureTolerated ==
    (pc = "done" /\ (\E i \in TaskIds : Failed(i))
                 /\ (\E i \in TaskIds : Succeeded(i)))
    => /\ result.status = 200
       /\ \A i \in TaskIds :
            /\ Succeeded(i) =>
                 [k \in 1..Len(RowsOf(result, Tickers[i])) |->
                     RowKey(RowsOf(result, Tickers[i])[k])]
                 = [k \in 1..Len(ServedSeries(i)) |-> CandleKey(ServedSeries(i)[k])]
            /\ Failed(i) => ReportsFailure(result, Tickers[i], "error")

\* C2: in a success response the rows are grouped in the order of the
\* ticker list, and the rows of each ticker are the candles served to that
\* ticker's own request, in upstream order, whatever order the requests
\* completed in.
C2_OrderPreserved ==
    (pc = "done" /\ result.status = 200)
    => LET rows == result.processed_data
       IN  /\ \A k, l \in 1..Len(rows) :
                k < l => TickerIndex(rows[k].ticker) <= TickerIndex(rows[l].ticker)
           /\ \A i \in TaskIds :
                [k \in 1..Len(RowsOf(result, Tickers[i])) |->
                    RowKey(RowsOf(result, Tickers[i])[k])]
                = [k \in 1..Len(ServedSeries(i)) |-> CandleKey(ServedSeries(i)[k])]

\* C2 witness: a success response after a later task completed before an
\* earlier one, every ticker with rows and one of them with two.
C2_Witness ==
    /\ pc = "done"
    /\ result.status = 200
    /\ overtaken
    /\ \A i \in TaskIds : Len(ServedSeries(i)) >= 1
    /\ \E i \in TaskIds : Len(ServedSeries(i)) >= 2

\* C4: when the fetch of every ticker fails, the call fails with an error
\* response and returns no result set.
C4_AllFailedFails ==
    (pc = "done" /\ \A i \in TaskIds : Failed(i))
    => /\ result.status >= 400
       /\ "processed_data" \notin DOMAIN result

\* C4 witness: the handler is done and every ticker's fetch has failed.
C4_Witness ==
    /\ pc = "done"
    /\ \A i \in TaskIds : Failed(i)
    /\ result.status = 500

\* C5: the caller gets a success response only when every message produced
\* to the queue has been acknowledged.
C5_AckBeforeSuccess ==
    result.status = 200 => (failed = 0 /\ acked = Len(queue))

\* C6: the tickers of a success response are requested tickers, and every
\* requested ticker is accounted for in it, by rows or by a status entry.
C6_TickersAccounted ==
    (pc = "done" /\ result.status = 200)
    => /\ \A k \in 1..Len(result.processed_data) :
            \E i \in TaskIds : result.processed_data[k].ticker = Tickers[i]
       /\ \A i \in TaskIds :
            \/ RowsOf(result, Tickers[i]) # <<>>
            \/ \E e \in StatusEntries(result) : e.ticker = Tickers[i]

\* C7: when a ticker's fetch runs out of time, the call still answers with
\* a response that marks that ticker as timed out and keeps the rows of
\* the tickers already collected.
C7_TimeoutTolerated ==
    (pc = "done" /\ \E i \in TaskIds :
                        served[i] = [kind |-> "raised", exc |-> "ReadTimeout"])
    => /\ result.status = 200
       /\ \A i \in TaskIds :
            /\ served[i].kind = "raised"
                 => ReportsFailure(result, Tickers[i], "TimeoutError")
            /\ Succeeded(i) =>
                 Len(RowsOf(result, Tickers[i])) = Len(ServedSeries(i))

\* C8: a candle with open = 0 does not make the call fail: its row carries
\* a well-defined closeToOpenRatio and the other rows are processed.
C8_DivisionGuard ==
    (pc = "done" /\ (\A i \in TaskIds : Succeeded(i))
                 /\ (\E i \in TaskIds :
                        \E k \in 1..Len(ServedSeries(i)) : ServedSeries(i)[k][1] = 0))
    => /\ result.status = 200
       /\ Len(result.processed_data) = Len(queue)
       /\ \A k \in 1..Len(result.processed_data) :
            ~result.processed_data[k].closeToOpenRatio.raised

\* The failures of a call that happen while fetching or transforming: every
\* failure of the handler but the producer's own.
FetchOrTransformFailure ==
    pc = "done" /\ result.status = 500 /\ result.detail # "BufferError"

\* C14: no message is produced until every ticker's response was a 200 and
\* every row was transformed; a call that fails while fetching or
\* transforming has produced no message; a call that succeeds has produced
\* exactly one message per row of its processed_data, in the same order.
C14_AllOrNothing ==
    /\ queue # <<>>
         => /\ \A i \in TaskIds : Succeeded(i)
            /\ ProcessAll(Tickers, CollectData(responses).data).ok
    /\ FetchOrTransformFailure => queue = <<>>
    /\ (pc = "done" /\ result.status = 200)
         => queue = [k \in 1..Len(result.processed_data) |->
                        Message(result.processed_data[k])]

\* C14 witness: a call that failed at the second row of a ticker after
\* rows of an earlier ticker were built, with nothing produced.
C14_Witness ==
    /\ pc = "done"
    /\ result.status = 500
    /\ result.detail = ZeroDivisionError
    /\ queue = <<>>
    /\ \A i \in TaskIds : Succeeded(i)
    /\ Len(RowsBuilt(Tickers, CollectData(responses).data, 1, 1)) >= 2

(***************************************************************************)
(* Properties of fetch_raw, checked under SpecCacheSeq.                     *)
(***************************************************************************)
Done(c) == calls[c].pc = "done"

\* C3: of calls that do not overlap, a successful use_cache call that
\* begins less than TTL seconds after a payload was stored under its key
\* sends no GET and returns that payload; one that begins with no payload
\* stored, or TTL seconds or more after the last one was, sends exactly one.
C3_CacheCorrect ==
    \A c \in Callers :
        (Done(c) /\ calls[c].use_cache /\ calls[c].result.ok)
        => IF calls[c].prior # NoStore /\ calls[c].started < calls[c].prior.time + TTL
           THEN calls[c].gets = 0 /\ calls[c].result.data = calls[c].prior.value
           ELSE calls[c].gets = 1

\* C3 witness: a call answered from the cache some time after the payload
\* was stored, the stored entry itself being a refetch made after an
\* earlier entry's window had passed.
C3_Witness ==
    \E c \in Callers :
        /\ Done(c) /\ calls[c].use_cache /\ calls[c].result.ok
        /\ calls[c].gets = 0
        /\ calls[c].prior # NoStore
        /\ calls[c].prior.time >= TTL
        /\ calls[c].started > calls[c].prior.time

\* C9: a failed call failed with an upstream error: for a non-2xx response
\* it carries the status code and at most the first 200 characters of the
\* body, for a transport failure it carries the cause, the caller's match on
\* the error type tells the two apart, and nothing else escapes the call.
C9_ErrorsNormalized ==
    \A c \in Callers :
        (Done(c) /\ ~calls[c].result.ok)
        => LET e == calls[c].result.error
               up == calls[c].up
           IN  /\ up.kind \in {"http", "transport"}
               /\ up.kind = "http" =>
                    /\ e.status = up.status
                    /\ e.excerptLen = Min(up.textLen, 200)
                    /\ MatchesHTTPStatusError(e)
               /\ up.kind = "transport" =>
                    /\ e.cause = up.cause
                    /\ ~MatchesHTTPStatusError(e)

\* C15: the cache lookup never makes a call fail, the entry expiring
\* between the membership test and the read included: a call returns a
\* payload or fails with the error built from its own upstream GET, and a
\* call whose entry expired during the lookup goes on to send that GET.
C15_LookupNeverFails ==
    \A c \in Callers :
        (Done(c) /\ ~calls[c].result.ok)
        => /\ calls[c].gets = 1
           /\ calls[c].result.error.message
                \in {"ISS API error", "Failed to fetch from ISS"}

\* The request a cache key's endpoint and params are sent as.
RequestOfKey(key) == Request(key[1], key[2])

\* C16: two calls that are sent as the same upstream request (the same
\* endpoint and, after the default limit is added, the same params in any
\* insertion order) use the same cache entry: a use_cache call sends a GET
\* only when the cache holds no unexpired payload of its request, so a call
\* that leaves limit out is answered from the entry of limit=100.
C16_KeyAgreesWithRequest ==
    \A c \in Callers :
        (calls[c].pc = "await" /\ calls[c].use_cache)
        => ~\E k \in 1..Len(cache) :
                /\ RequestOfKey(cache[k].key) = calls[c].request
                /\ calls[c].started < cache[k].expires

\* Two calls one of which began while the other was under way on the same
\* key, and a call that found no unexpired entry when it began.
Overlap(c1, c2) ==
    calls[c1].id \in calls[c2].peers \/ calls[c2].id \in calls[c1].peers
BeganOnMiss(c) ==
    /\ calls[c].pc \in {"await", "done"}
    /\ calls[c].use_cache
    /\ Done(c) => calls[c].up.kind # "none"

\* C12: of use_cache calls on the same key that overlap and began while the
\* cache held no unexpired entry of the key, only one sends a GET, and the
\* calls return the same payload.
C12_SingleFlight ==
    \A c1, c2 \in Callers :
        (c1 # c2 /\ BeganOnMiss(c1) /\ BeganOnMiss(c2) /\ Overlap(c1, c2))
        => /\ calls[c1].gets + calls[c2].gets <= 1
           /\ (Done(c1) /\ Done(c2) /\ calls[c1].result.ok /\ calls[c2].result.ok)
                => calls[c1].result.data = calls[c2].result.data

(***************************************************************************)
(* Properties of fetch_raw over a cache that fills up, checked under        *)
(* SpecPaging.                                                              *)
(***************************************************************************)
Links(c) == { c[k] : k \in 1..Len(c) }

\* C13: a call sends no GET when it is answered from the cache and exactly
\* one otherwise; a call whose GET failed is over, with no second attempt,
\* and its failure leaves the cache as it was; the cache changes only by
\* the payload of a successful use_cache call being stored under the call's
\* key; and the cache never holds more than Maxsize entries.
C13_OneGetCacheBounded ==
    [][ /\ \A c \in Callers :
             /\ calls'[c].pc # "idle"
                  => calls'[c].gets
                        = IF \/ calls'[c].pc = "hit"
                             \/ calls'[c].pc = "done" /\ calls'[c].up.kind = "none"
                          THEN 0 ELSE 1
             /\ calls[c].pc = "done" => calls'[c].pc \in {"done", "idle"}
             /\ (calls[c].pc = "await" /\ calls'[c].pc = "done"
                    /\ ~calls'[c].result.ok)
                  => cache' = cache
        /\ cache' # cache
             => \E c \in Callers :
                    /\ calls[c].pc = "await" /\ calls[c].use_cache
                    /\ calls'[c].pc = "done" /\ calls'[c].result.ok
                    /\ cache'[Len(cache')].key = calls[c].key
                    /\ cache'[Len(cache')].value = calls'[c].result.data
                    /\ \A k \in 1..(Len(cache') - 1) : cache'[k] \in Links(cache)
        /\ Len(cache') <= Maxsize
        /\ \A j, k \in 1..Len(cache') :
             cache'[j].key = cache'[k].key => j = k
      ]_vars

\* C13 witness: the cache is full, the oldest pages have made room for
\* later ones, and a call on the next page has just failed.
C13_Witness ==
    /\ Len(cache) = Maxsize
    /\ PagesStored > Maxsize
    /\ cache[1].key # CacheKey(ListEndpoint, PageParams(0))
    /\ \E c \in Callers :
            /\ Done(c) /\ ~calls[c].result.ok
            /\ calls[c].gets = 1
            /\ calls[c].key = CacheKey(ListEndpoint, PageParams(PagesStored))

(***************************************************************************)
(* Properties of the pass-through handlers, checked under SpecProxy.        *)
(***************************************************************************)
\* C11: whichever pass-through handler a request reaches, a failure of its
\* fetch_raw call is answered with status 500 and a message that names the
\* failure; the exception never leaves the handler and no other status is
\* answered.
C11_UniformErrorMapping ==
    (reply # NoReply /\ ~reply.fetched.ok)
    => /\ reply.response.status = 500
       /\ reply.response.handled
       /\ reply.response.detail # "Internal Server Error"

(***************************************************************************)
(* The chart read path: get_candles_chart over fetch_from_clickhouse        *)
(* (app/routers/charts.py, app/clickhouse_utils.py).                        *)
(***************************************************************************)
\* A column value of a result row: a string with its length, or a number
\* (prices and DateTime columns).
Str(v, n) == [t |-> "str", v |-> v, len |-> n]
Num(v) == [t |-> "num", v |-> v, len |-> 0]

ChartTickers == {"SBER", "GAZP"}

\* The rows td.candles may hold: ticker, open_price, close_price, open_dt,
\* close_dt, landed_at (the columns charts.py:17-22 selects). The same
\* period of a ticker may have landed more than once.
StoredRows ==
    { [ticker |-> t, open_price |-> 100 + d, close_price |-> 101 + d,
       open_dt |-> d, close_dt |-> d + 1, landed_at |-> l] :
        t \in ChartTickers, d \in 1..MaxDt, l \in 1..MaxLanded }

\* charts.py:16-23: the SELECT list, as one result row of the driver: a
\* tuple of the column values.
ResultRow(r) ==
    << Str(r.ticker, 4), Num(r.open_price), Num(r.close_price),
       Num(r.open_dt), Num(r.close_dt), Num(r.landed_at) >>

\* charts.py:23-26: WHERE ticker = '{ticker}' ORDER BY open_dt DESC
\* LIMIT {limit}: every sequence of rows the engine may answer with (it
\* orders rows of equal open_dt as it likes).
RECURSIVE SeqsOf(_, _)
SeqsOf(S, n) ==
    IF n = 0 THEN {<<>>}
    ELSE UNION { { <<x>> \o q : q \in SeqsOf(S \ {x}, n - 1) } : x \in S }

QueryAnswers(rows, ticker, limit) ==
    LET match == { r \in rows : r.ticker = ticker }
        n == Min(limit, Cardinality(match))
    IN  { q \in SeqsOf(match, n) :
            /\ \A k \in 1..(n - 1) : q[k].open_dt >= q[k + 1].open_dt
            /\ \A r \in match :
                (\A k \in 1..n : q[k] # r)
                    => \A k \in 1..n : q[k].open_dt >= r.open_dt }

\* clickhouse_utils.py:7: dict(row) of a result row. dict() of a sequence
\* takes every element as a (key, value) pair: an element that is a number,
\* or a string that is not two characters long, raises.
DictOfRow(row) ==
    IF \A k \in 1..Len(row) : row[k].t = "str" /\ row[k].len = 2
    THEN [ok |-> TRUE, dict |-> { <<row[k].v, row[k].v>> : k \in 1..Len(row) }]
    ELSE [ok |-> FALSE,
          exc |-> IF row[1].t = "str" /\ row[1].len # 2
                  THEN "ValueError" ELSE "TypeError"]

\* clickhouse_utils.py:4-7: [dict(row) for row in result.result_rows].
FetchFromClickhouse(answer) ==
    LET ds == [k \in 1..Len(answer) |-> DictOfRow(ResultRow(answer[k]))]
        bad == { k \in 1..Len(ds) : ~ds[k].ok }
    IN  IF bad = {}
        THEN [ok |-> TRUE, rows |-> [k \in 1..Len(ds) |-> ds[k].dict]]
        ELSE [ok |-> FALSE,
              exc |-> ds[CHOOSE k \in bad : \A m \in bad : k <= m].exc]

NoChart == [called |-> FALSE]

InitRead ==
    /\ store = {}
    /\ chart = NoChart

\* A row lands in td.candles (written by the consumer of the candles
\* topic; the table is outside this service).
RowLands(r) ==
    /\ Cardinality(store) < MaxStored
    /\ r \notin store
    /\ store' = store \cup {r}
    /\ chart' = NoChart

\* charts.py:7-30: GET /charts/candles/{ticker}?limit=...
GetCandlesChart(ticker, limit) ==
    /\ \E answer \in QueryAnswers(store, ticker, limit) :
        chart' = [called |-> TRUE, ticker |-> ticker, limit |-> limit,
                  answer |-> answer, before |-> store,
                  out |-> FetchFromClickhouse(answer)]
    /\ store' = store

NextRead ==
    \/ \E r \in StoredRows : RowLands(r) /\ UNCHANGED <<aggVars, cacheVars, proxyVars>>
    \/ \E t \in ChartTickers, l \in 1..MaxLimit :
            GetCandlesChart(t, l) /\ UNCHANGED <<aggVars, cacheVars, proxyVars>>

(***************************************************************************)
(* Properties of the chart read path, checked under SpecRead.               *)
(***************************************************************************)
\* C10: a chart call returns rows of the requested ticker only, strictly
\* descending by period start, at most limit of them and the most recent
\* ones, and leaves the stored rows as they were.
C10_ReadOrdering ==
    chart.called
    => /\ chart.out.ok
       /\ store = chart.before
       /\ LET rows == chart.out.rows
              mine == { r \in chart.before : r.ticker = chart.ticker }
          IN  /\ Len(rows) = Min(chart.limit, Cardinality(mine))
              /\ \A k \in 1..Len(rows) : rows[k].ticker = chart.ticker
              /\ \A k \in 1..(Len(rows) - 1) : rows[k].time > rows[k + 1].time
              /\ \A r \in mine :
                    \/ \E k \in 1..Len(rows) : rows[k].time = r.open_dt
                    \/ \A k \in 1..Len(rows) : rows[k].time > r.open_dt

(***************************************************************************)
(* Specifications.                                                          *)
(***************************************************************************)
Init == InitAgg /\ InitCache /\ InitRead /\ InitProxy

\* One run of process_and_analyze_data.
SpecAgg == Init /\ [][NextAgg]_vars

\* fetch_raw invocations one after the other, with time passing.
SpecCacheSeq == Init /\ [][NextCacheSeq]_vars

\* fetch_raw invocations that may overlap, with time passing.
SpecCache == Init /\ [][NextCache]_vars

\* fetch_raw invocations that fill the cache beyond its capacity.
SpecPaging == Init /\ [][NextPaging]_vars

\* Requests to the pass-through handlers, one after the other.
SpecProxy == Init /\ [][NextProxy]_vars

\* Rows landing in td.candles and chart requests reading them.
SpecRead == Init /\ [][NextRead]_vars

====
